---- MODULE Spec2Model ----
(***************************************************************************)
(* A model of the mounting middleware of src/src/mount.rs: the Mount       *)
(* table (a sequence trie of Match entries keyed by path segments), the    *)
(* registration method Mount::mount and the dispatch method Mount::handle  *)
(* with its OriginalUrl protocol, including Mounts nested as handlers of   *)
(* other Mounts.                                                           *)
(***************************************************************************)
EXTENDS Naturals, Sequences, FiniteSets, TLC

\* ------------------------------------------------------------------ bounds

\* Longest route string (in characters) handed to Mount::mount.
MaxRouteLen == 3
\* Number of entries the tables hold together when they are built.
MaxMounts == 2
\* Longest request path (in segments) of an incoming request.
MaxPathLen == 3

\* Characters a route string is made of.
RouteChars == {"/", "a"}
\* Segments a request path is made of; "" is what a trailing or doubled
\* separator of the URL leaves in Url::path.
ReqSegments == {"a", ""}
\* Plain handlers (closures, functions) that are not Mounts: h1 answers
\* Ok (as send_hello does), h2 fails with an error of its own.
Leaves == {"h1", "h2"}
LeafResult(h) == IF h = "h1" THEN "Ok" ELSE "Err"
\* Mount instances; Root is the one handed to the server.
Mounts == {"m1", "m2"}
Root == "m1"
\* Requests the server hands to the Root Mount at the same time, each on a
\* thread of its own (Handler is Send + Sync, handle takes &self).
Requests == {"r1", "r2"}

SeqsUpTo(S, n) == UNION {[1..k -> S] : k \in 0..n}

Routes == SeqsUpTo(RouteChars, MaxRouteLen)
ReqPaths == SeqsUpTo(ReqSegments, MaxPathLen)

\* Option values: None is <<>>, Some(x) is <<x>>.
None == <<>>
Some(x) == <<x>>

\* ------------------------------------------------------------------- urls

\* The URL of an incoming request: everything but the path is one field.
NewUrl(path) == [host |-> "localhost", path |-> path]
\* What a handler that overwrites req.url leaves there.
ScrambledUrl == [host |-> "evil", path |-> <<"zz">>]
\* An OriginalUrl some other component attached before the Mount ran.
ForeignUrl == [host |-> "foreign", path |-> <<"b">>]

\* ------------------------------------------------- std::path::Components

\* The pieces of a route between separators, empty pieces included;
\* cur is the piece being read.
RECURSIVE SplitRoute(_, _, _)
SplitRoute(route, i, cur) ==
  IF i > Len(route) THEN <<cur>>
  ELSE IF route[i] = "/" THEN <<cur>> \o SplitRoute(route, i + 1, "")
  ELSE SplitRoute(route, i + 1, cur \o route[i])

\* Path::components followed by the flat_map of Mount::mount: RootDir is
\* dropped, empty pieces (repeated or trailing separators) are no component,
\* "." is a component (CurDir) only as the first piece of a relative path,
\* ".." (ParentDir) and normal components are kept as their text.
RECURSIVE KeepComponents(_, _)
KeepComponents(pieces, i) ==
  IF i > Len(pieces) THEN <<>>
  ELSE IF pieces[i] = "" THEN KeepComponents(pieces, i + 1)
  ELSE IF pieces[i] = "." /\ i > 1 THEN KeepComponents(pieces, i + 1)
  ELSE <<pieces[i]>> \o KeepComponents(pieces, i + 1)

\* A slip of RouteKey: the route is split at its separators and the empty
\* pieces after the first are kept.
RouteKeySplitOnly(route) ==
  LET pieces == SplitRoute(route, 1, "")
  IN IF pieces[1] = "" THEN Tail(pieces) ELSE pieces

RouteKey(route) == KeepComponents(SplitRoute(route, 1, ""), 1)

\* ---------------------------------------------------------- SequenceTrie

\* A trie is a function from its nodes (the key prefixes it holds) to the
\* optional value of each node.
TrieNew == [k \in {<<>>} |-> None]

Prefixes(key) == {SubSeq(key, 1, n) : n \in 0..Len(key)}

TrieInsert(t, key, v) ==
  [k \in DOMAIN t \cup Prefixes(key) |->
     IF k = key THEN Some(v)
     ELSE IF k \in DOMAIN t THEN t[k] ELSE None]

\* The descent of get_ancestor: n segments of key are consumed, best is the
\* value of the deepest node with a value seen so far.
RECURSIVE Descend(_, _, _, _)
Descend(t, key, n, best) ==
  IF n < Len(key) /\ SubSeq(key, 1, n + 1) \in DOMAIN t
  THEN Descend(t, key, n + 1,
               IF t[SubSeq(key, 1, n + 1)] # None
               THEN t[SubSeq(key, 1, n + 1)] ELSE best)
  ELSE best

GetAncestor(t, key) == Descend(t, key, 0, t[<<>>])

\* ------------------------------------------------------------------ state

VARIABLES
  inner,       \* inner[m]: the trie of Mount m
  moved,       \* the Mounts that were handed to another Mount as its handler
  registered,  \* registered[m]: <<key, handler>> of the last mount call per key
  req,         \* the request: [url, ext], ext the OriginalUrl extension
  ctl,         \* "build", "call" (callee is being invoked), "ret", "panic"
  callee,      \* the handler being invoked
  stack,       \* the frames of the Mount::handle calls in progress
  res,         \* the result of the handler call that returned last
  seen,        \* what the plain handler invoked last observed
  tampered,    \* a handler removed OriginalUrl during this request
  lastRet,     \* the Mount::handle call that returned last
  lastRoute,   \* the Mount and route string of the last mount call, where
               \* the build is followed route by route (SpecBuild)
  reqs,        \* reqs[r]: the handle call of request r, where several
               \* requests are served at once (SpecConc)
  exts         \* exts[s]: the OriginalUrl held by extension map s (SpecConc)

vars == <<inner, moved, registered, req, ctl, callee, stack, res, seen,
          tampered, lastRet, lastRoute, reqs, exts>>

\* A request the server has not handed over yet.
Idle ==
  [ctl |-> "idle", url |-> NewUrl(<<>>), callee |-> Root, stack |-> <<>>,
   res |-> "none", seen |-> None, entry |-> None]

Init ==
  /\ inner = [m \in Mounts |-> TrieNew]
  /\ moved = {}
  /\ registered = [m \in Mounts |-> {}]
  /\ req = [url |-> NewUrl(<<>>), ext |-> None]
  /\ ctl = "build"
  /\ callee = Root
  /\ stack = <<>>
  /\ res = "none"
  /\ seen = None
  /\ tampered = FALSE
  /\ lastRet = None
  /\ lastRoute = None
  /\ reqs = [r \in Requests |-> Idle]
  /\ exts = [r \in Requests |-> None]

\* ------------------------------------------------------------ Mount::mount

\* A slip of NewMatch: the length counts the root component as well.
NewMatchWithRoot(key, handler) ==
  [handler |-> handler, length |-> Len(key) + 1]

\* The Match stored for a route key.
NewMatch(key, handler) == [handler |-> handler, length |-> Len(key)]

\* The keys of a trie that hold a value.
Entries(t) == {k \in DOMAIN t : t[k] # None}

RECURSIVE SumEntries(_, _)
SumEntries(tables, ms) ==
  IF ms = {} THEN 0
  ELSE LET m == CHOOSE x \in ms : TRUE
       IN Cardinality(Entries(tables[m])) + SumEntries(tables, ms \ {m})

NumEntries(tables) == SumEntries(tables, Mounts)

\* The route as the documentation of mount reads it: its non-empty pieces
\* between separators.
NonEmpty(piece) == piece # ""
NormalKey(route) == SelectSeq(SplitRoute(route, 1, ""), NonEmpty)

\* The record of mount calls: the last handler given for each normalized key.
Register(regs, key, handler) ==
  {r \in regs : r[1] # key} \cup {<<key, handler>>}

\* mount(route, handler) on Mount m. A Mount given as the handler is moved
\* into the table: it cannot be mounted twice nor changed afterwards, and
\* the Mount served by the server is not mounted elsewhere.
MountRoute(m, route, handler) ==
  /\ ctl = "build"
  /\ m \notin moved
  /\ handler \in Mounts => handler # m /\ handler # Root /\ handler \notin moved
  /\ inner' = [inner EXCEPT ![m] =
                 TrieInsert(inner[m], RouteKey(route),
                            NewMatch(RouteKey(route), handler))]
  /\ moved' = IF handler \in Mounts THEN moved \cup {handler} ELSE moved
  /\ registered' = [registered EXCEPT ![m] =
                      Register(registered[m], NormalKey(route), handler)]
  /\ NumEntries(inner') <= MaxMounts
  /\ UNCHANGED <<req, ctl, callee, stack, res, seen, tampered, lastRet>>

\* A mount call whose route string is not followed.
MountAny(m, route, handler) ==
  MountRoute(m, route, handler) /\ UNCHANGED <<lastRoute, reqs, exts>>

\* A mount call whose Mount and route string are kept in lastRoute.
MountLogged(m, route, handler) ==
  /\ MountRoute(m, route, handler)
  /\ lastRoute' = Some(<<m, route>>)
  /\ UNCHANGED <<reqs, exts>>

\* ----------------------------------------------------------- Mount::handle

\* The server (or the code around the Mount) hands a request to the Root
\* Mount once the tables are built; no mount call follows.
NewRequest(path, ext) ==
  /\ ctl = "build"
  /\ req' = [url |-> NewUrl(path), ext |-> ext]
  /\ ctl' = "call"
  /\ callee' = Root
  /\ UNCHANGED <<inner, moved, registered, stack, res, seen, tampered,
                 lastRet, lastRoute, reqs, exts>>

\* A slip of LookupKey: the last segment is cut off whether or not it is
\* empty.
LookupKeyAlwaysCut(path) ==
  IF Len(path) > 0 THEN SubSeq(path, 1, Len(path) - 1) ELSE path

\* The key looked up for a request path: one trailing empty segment is
\* removed.
LookupKey(path) ==
  IF Len(path) > 0 /\ path[Len(path)] = ""
  THEN SubSeq(path, 1, Len(path) - 1)
  ELSE path

\* A slip of FindMatch: the untrimmed path is looked up as an exact key.
FindMatchExact(t, path) == IF path \in DOMAIN t THEN t[path] ELSE None

\* matched: the entry get_ancestor finds for the request path, if any.
FindMatch(t, path) == GetAncestor(t, LookupKey(path))

\* A slip of ExtOnEnter: every Mount inserts the URL it sees.
ExtOnEnterAlways(ext, url) == Some(url)

\* The OriginalUrl extension after the insert of the outermost Mount.
ExtOnEnter(ext, url) == IF ext = None THEN Some(url) ELSE ext

\* A slip of DropPrefix: the slice starts one segment late.
DropPrefixOneMore(path, length) == SubSeq(path, length + 2, Len(path))

\* path[length..].to_vec()
DropPrefix(path, length) == SubSeq(path, length + 1, Len(path))

\* A slip of RestoredUrl: the URL is left as the handler returned it.
RestoredUrlForgotten(url, ext) == url

\* The URL put back after the handler returned (url is the URL the handler
\* left, ext the OriginalUrl extension, which is present).
RestoredUrl(url, ext) == ext[1]

\* A slip of Restore: without OriginalUrl the Mount carries on with the
\* URL as it is.
RestoreOrCarryOn(url, ext) ==
  IF ext = None THEN Some(url) ELSE Some(RestoredUrl(url, ext))

\* The match on extensions.get::<OriginalUrl>(): the URL to put back, or
\* None where the code panics.
Restore(url, ext) ==
  IF ext = None THEN None ELSE Some(RestoredUrl(url, ext))

\* A slip of the return value: a handler's error leaves as NoMatch.
HandleResultAsNoMatch(r) == IF r = "Ok" THEN r ELSE "NoMatch"

\* The value handle returns for the result r of the matched handler.
HandleResult(r) == r

\* A slip of ExtOnReturn: every Mount removes the extension.
ExtOnReturnAlwaysRemoved(is_outer_mount, ext) == None

\* A slip of ExtOnReturn: the extension is never removed.
ExtOnReturnKept(is_outer_mount, ext) == ext

\* The OriginalUrl extension when handle returns.
ExtOnReturn(is_outer_mount, ext) == IF is_outer_mount THEN None ELSE ext

\* Mount::handle up to the call of the matched handler. A frame keeps, next
\* to the locals matched and is_outer_mount, the request as it was on entry
\* and as it is passed to the handler.
HandleEnter ==
  /\ ctl = "call"
  /\ callee \in Mounts
  /\ LET matched == FindMatch(inner[callee], req.url.path)
         is_outer_mount == (req.ext = None)
         passed == [url |-> [req.url EXCEPT
                               !.path = DropPrefix(req.url.path,
                                                   matched[1].length)],
                    ext |-> ExtOnEnter(req.ext, req.url)]
     IN IF matched = None
        THEN /\ ctl' = "ret"
             /\ res' = "NoMatch"
             /\ lastRet' = Some([mount |-> callee, depth |-> Len(stack) + 1,
                                 matched |-> None,
                                 entry |-> req, exit |-> req,
                                 result |-> "NoMatch"])
             /\ UNCHANGED <<req, callee, stack>>
        ELSE /\ req' = passed
             /\ stack' = Append(stack, [mount |-> callee,
                                        matched |-> matched[1],
                                        is_outer_mount |-> is_outer_mount,
                                        entry |-> req,
                                        passed |-> passed])
             /\ callee' = matched[1].handler
             /\ ctl' = "call"
             /\ UNCHANGED <<res, lastRet>>
  /\ UNCHANGED <<inner, moved, registered, seen, tampered, lastRoute,
                 reqs, exts>>

\* A plain handler runs: it returns its result, and it may leave the request
\* alone, overwrite its URL, or remove the OriginalUrl extension.
LeafHandle(effect) ==
  /\ ctl = "call"
  /\ callee \in Leaves
  /\ seen' = Some([handler |-> callee, req |-> req, depth |-> Len(stack),
                   effect |-> effect])
  /\ req' = CASE effect = "keep" -> req
              [] effect = "scramble" -> [req EXCEPT !.url = ScrambledUrl]
              [] effect = "remove" -> [req EXCEPT !.ext = None]
  /\ tampered' = (tampered \/ (effect = "remove" /\ req.ext # None))
  /\ res' = LeafResult(callee)
  /\ ctl' = "ret"
  /\ UNCHANGED <<inner, moved, registered, callee, stack, lastRet,
                 lastRoute, reqs, exts>>

\* Mount::handle after the matched handler returned: the URL is put back
\* from OriginalUrl (a panic if it is gone), the outermost Mount removes
\* the extension, and the handler's result is returned.
HandleReturn ==
  /\ ctl = "ret"
  /\ stack # <<>>
  /\ LET frame == stack[Len(stack)]
         restored == Restore(req.url, req.ext)
     IN IF restored = None
        THEN /\ ctl' = "panic"
             /\ UNCHANGED <<req, stack, res, lastRet>>
        ELSE /\ req' = [url |-> restored[1],
                        ext |-> ExtOnReturn(frame.is_outer_mount, req.ext)]
             /\ stack' = SubSeq(stack, 1, Len(stack) - 1)
             /\ res' = HandleResult(res)
             /\ lastRet' = Some([mount |-> frame.mount,
                                 depth |-> Len(stack),
                                 matched |-> Some(frame.matched),
                                 entry |-> frame.entry,
                                 exit |-> req',
                                 result |-> res'])
             /\ ctl' = "ret"
  /\ UNCHANGED <<inner, moved, registered, callee, seen, tampered, lastRoute,
                 reqs, exts>>

Next ==
  \/ \E m \in Mounts, route \in Routes, handler \in Leaves \cup Mounts :
       MountAny(m, route, handler)
  \/ \E path \in ReqPaths, ext \in {None, Some(ForeignUrl)} :
       NewRequest(path, ext)
  \/ HandleEnter
  \/ \E effect \in {"keep", "scramble", "remove"} : LeafHandle(effect)
  \/ HandleReturn

Spec == Init /\ [][Next]_vars

\* The build of the tables alone, followed route by route.
NextBuild ==
  \E m \in Mounts, route \in Routes, handler \in Leaves \cup Mounts :
    MountLogged(m, route, handler)

SpecBuild == Init /\ [][NextBuild]_vars

\* ----------------------------------------------- several requests at once

\* A slip of ExtStore: the OriginalUrl is kept in one place for all
\* requests (in the Mount, as it were) and not in the request.
ExtStoreOfTheMount(r) == "r1"

\* The extension map a handle call reads and writes: req.extensions, the
\* map of the request it was handed.
ExtStore(r) == r

\* Mount::handle on request rq with handler h and tables t, run from the
\* call to its end with no other request about: the request as it is left,
\* the result, what the plain handler observed, and whether the call
\* panicked. The plain handler does effect to the request.
RECURSIVE AloneHandle(_, _, _, _)
AloneHandle(t, h, rq, effect) ==
  IF h \in Leaves
  THEN [req |-> CASE effect = "keep" -> rq
                  [] effect = "scramble" -> [rq EXCEPT !.url = ScrambledUrl]
                  [] effect = "remove" -> [rq EXCEPT !.ext = None],
        res |-> LeafResult(h),
        seen |-> Some([handler |-> h, path |-> rq.url.path,
                       effect |-> effect]),
        panicked |-> FALSE]
  ELSE LET matched == FindMatch(t[h], rq.url.path)
       IN IF matched = None
          THEN [req |-> rq, res |-> "NoMatch", seen |-> None,
                panicked |-> FALSE]
          ELSE LET is_outer_mount == (rq.ext = None)
                   passed == [url |-> [rq.url EXCEPT
                                         !.path = DropPrefix(rq.url.path,
                                                      matched[1].length)],
                              ext |-> ExtOnEnter(rq.ext, rq.url)]
                   back == AloneHandle(t, matched[1].handler, passed, effect)
                   restored == Restore(back.req.url, back.req.ext)
               IN IF back.panicked THEN back
                  ELSE IF restored = None
                  THEN [back EXCEPT !.panicked = TRUE]
                  ELSE [back EXCEPT
                          !.req = [url |-> restored[1],
                                   ext |-> ExtOnReturn(is_outer_mount,
                                                       back.req.ext)],
                          !.res = HandleResult(back.res)]

\* The server hands request r to the Root Mount; from then on the tables
\* are borrowed shared (&self) and no mount call follows. r1 names the
\* request that is handed over first.
Accept(r, path) ==
  /\ ctl \in {"build", "serve"}
  /\ reqs[r].ctl = "idle"
  /\ r = "r2" => reqs["r1"].ctl # "idle"
  /\ ctl' = "serve"
  /\ reqs' = [reqs EXCEPT ![r] =
                [Idle EXCEPT !.ctl = "call", !.url = NewUrl(path),
                             !.entry = Some([url |-> NewUrl(path),
                                             tables |-> inner])]]
  /\ UNCHANGED <<inner, moved, registered, req, callee, stack, res, seen,
                 tampered, lastRet, lastRoute, exts>>

\* One thread's Mount::handle up to the call of the matched handler.
ConcEnter(r) ==
  /\ reqs[r].ctl = "call"
  /\ reqs[r].callee \in Mounts
  /\ LET s == reqs[r]
         ext == exts[ExtStore(r)]
         matched == FindMatch(inner[s.callee], s.url.path)
         is_outer_mount == (ext = None)
     IN IF matched = None
        THEN /\ reqs' = [reqs EXCEPT ![r] =
                           [s EXCEPT !.ctl = "ret", !.res = "NoMatch"]]
             /\ UNCHANGED exts
        ELSE /\ exts' = [exts EXCEPT ![ExtStore(r)] = ExtOnEnter(ext, s.url)]
             /\ reqs' = [reqs EXCEPT ![r] =
                  [s EXCEPT
                     !.url = [s.url EXCEPT
                                !.path = DropPrefix(s.url.path,
                                                    matched[1].length)],
                     !.stack = Append(s.stack,
                                      [mount |-> s.callee,
                                       is_outer_mount |-> is_outer_mount]),
                     !.callee = matched[1].handler]]
  /\ UNCHANGED <<inner, moved, registered, req, ctl, callee, stack, res,
                 seen, tampered, lastRet, lastRoute>>

\* One thread's plain handler runs on the request it was handed.
ConcLeaf(r, effect) ==
  /\ reqs[r].ctl = "call"
  /\ reqs[r].callee \in Leaves
  /\ LET s == reqs[r]
     IN /\ reqs' = [reqs EXCEPT ![r] =
              [s EXCEPT
                 !.ctl = "ret",
                 !.res = LeafResult(s.callee),
                 !.seen = Some([handler |-> s.callee, path |-> s.url.path,
                                effect |-> effect]),
                 !.url = IF effect = "scramble" THEN ScrambledUrl ELSE s.url]]
        /\ exts' = IF effect = "remove"
                   THEN [exts EXCEPT ![ExtStore(r)] = None]
                   ELSE exts
  /\ UNCHANGED <<inner, moved, registered, req, ctl, callee, stack, res,
                 seen, tampered, lastRet, lastRoute>>

\* One thread's Mount::handle after the matched handler returned.
ConcReturn(r) ==
  /\ reqs[r].ctl = "ret"
  /\ reqs[r].stack # <<>>
  /\ LET s == reqs[r]
         ext == exts[ExtStore(r)]
         frame == s.stack[Len(s.stack)]
         restored == Restore(s.url, ext)
     IN IF restored = None
        THEN /\ reqs' = [reqs EXCEPT ![r] = [s EXCEPT !.ctl = "panic"]]
             /\ UNCHANGED exts
        ELSE /\ exts' = [exts EXCEPT ![ExtStore(r)] =
                           ExtOnReturn(frame.is_outer_mount, ext)]
             /\ reqs' = [reqs EXCEPT ![r] =
                  [s EXCEPT
                     !.url = restored[1],
                     !.stack = SubSeq(s.stack, 1, Len(s.stack) - 1),
                     !.res = HandleResult(s.res)]]
  /\ UNCHANGED <<inner, moved, registered, req, ctl, callee, stack, res,
                 seen, tampered, lastRet, lastRoute>>

NextConc ==
  \/ \E m \in Mounts, route \in Routes, handler \in Leaves \cup Mounts :
       MountAny(m, route, handler)
  \/ \E r \in Requests, path \in ReqPaths : Accept(r, path)
  \/ \E r \in Requests : ConcEnter(r)
  \/ \E r \in Requests, effect \in {"keep", "scramble", "remove"} :
       ConcLeaf(r, effect)
  \/ \E r \in Requests : ConcReturn(r)

SpecConc == Init /\ [][NextConc]_vars

\* ----------------------------------------------------- terms of the claims

\* k is a segment-wise prefix of p.
IsPrefix(k, p) == Len(k) <= Len(p) /\ \A i \in 1..Len(k) : p[i] = k[i]

\* p without one trailing empty segment.
WithoutTrailingEmpty(p) ==
  IF p # <<>> /\ p[Len(p)] = "" THEN [i \in 1..(Len(p) - 1) |-> p[i]] ELSE p

\* The last Mount::handle call that returned.
Returned == lastRet[1]

\* p without its first n segments.
RemoveSegments(p, n) == [i \in 1..(Len(p) - n) |-> p[i + n]]

\* The registered keys of table t that are prefixes of the request path p,
\* and the longest among them.
MatchingKeys(t, p) ==
  {k \in Entries(t) : IsPrefix(k, WithoutTrailingEmpty(p))}

MostSpecific(t, p) ==
  {k \in MatchingKeys(t, p) : \A k2 \in MatchingKeys(t, p) : Len(k2) <= Len(k)}

Frames == {stack[i] : i \in 1..Len(stack)}

\* The handler frame i of the stack called: the Mount of the next frame, or
\* for the top frame the handler being invoked.
CallsHandler(i, h) ==
  /\ i < Len(stack) => stack[i + 1].mount = h
  /\ (i = Len(stack) /\ ctl = "call") => callee = h

\* A table with exactly the given entries.
HoldsExactly(t, pairs) ==
  /\ Entries(t) = {pr[1] : pr \in pairs}
  /\ \A pr \in pairs : t[pr[1]][1].handler = pr[2]

\* ---------------------------------------------------------------------- C1

\* C1: in every Mount::handle call, of any Mount and at any depth, the entry
\* matched and the handler invoked are those of the registered key with the
\* most segments among the registered keys that are segment-wise prefixes
\* of the request path (one trailing empty segment dropped).
C1_MostSpecificWins ==
  /\ \A i \in 1..Len(stack) :
       LET f == stack[i]
           t == inner[f.mount]
           best == MostSpecific(t, f.entry.url.path)
       IN /\ best # {}
          /\ \A k \in best : /\ f.matched = t[k][1]
                             /\ CallsHandler(i, t[k][1].handler)
  /\ (lastRet # None /\ lastRet[1].matched # None) =>
       \A k \in MostSpecific(inner[lastRet[1].mount],
                             lastRet[1].entry.url.path) :
         lastRet[1].matched = inner[lastRet[1].mount][k]

\* C1 witness: with /a -> h1 and /a/a -> h2 registered, the request /a/a/a
\* is handed to h2, which sees the path a.
C1_Witness ==
  /\ HoldsExactly(inner[Root], {<< <<"a">>, "h1" >>, << <<"a", "a">>, "h2" >>})
  /\ ctl = "call"
  /\ Len(stack) = 1
  /\ stack[1].entry.url.path = <<"a", "a", "a">>
  /\ callee = "h2"
  /\ req.url.path = <<"a">>

\* ---------------------------------------------------------------------- C2

\* C2 as stated: for every registered key that is a prefix of the request
\* path, the dispatch invokes that key's handler with the path less the
\* key's segments.
C2_EveryPrefixInvoked ==
  \A i \in 1..Len(stack) :
    LET f == stack[i]
        t == inner[f.mount]
    IN \A k \in Entries(t) :
         IsPrefix(k, f.entry.url.path) =>
           /\ f.matched = t[k][1]
           /\ CallsHandler(i, t[k][1].handler)
           /\ f.passed.url.path = RemoveSegments(f.entry.url.path, Len(k))

\* C2 amended: for the registered key R that is the longest registered
\* prefix of the request path P, the dispatch invokes R's handler, which
\* observes P less R's segments; and a dispatch that invokes nothing had no
\* registered prefix.
C2_LongestPrefixInvoked ==
  /\ \A i \in 1..Len(stack) :
       LET f == stack[i]
           t == inner[f.mount]
       IN \A k \in Entries(t) :
            (IsPrefix(k, f.entry.url.path) /\
             \A k2 \in Entries(t) :
               IsPrefix(k2, f.entry.url.path) => Len(k2) <= Len(k)) =>
              /\ f.matched = t[k][1]
              /\ CallsHandler(i, t[k][1].handler)
              /\ f.passed.url.path = RemoveSegments(f.entry.url.path, Len(k))
              /\ (i = Len(stack) /\ ctl = "call") =>
                   req.url.path = RemoveSegments(f.entry.url.path, Len(k))
  /\ (lastRet # None /\ lastRet[1].matched = None) =>
       \A k \in Entries(inner[lastRet[1].mount]) :
         ~IsPrefix(k, lastRet[1].entry.url.path)
  /\ (seen # None /\ stack # <<>> /\ ctl = "ret"
        /\ seen[1].depth = Len(stack)) =>
       seen[1].req.url.path = stack[Len(stack)].passed.url.path

\* C2 witness: h1 mounted at /a only is invoked for /a/a/ and observes the
\* path a, "".
C2_Witness ==
  /\ HoldsExactly(inner[Root], {<< <<"a">>, "h1" >>})
  /\ ctl = "ret"
  /\ Len(stack) = 1
  /\ stack[1].entry.url.path = <<"a", "a", "">>
  /\ seen # None
  /\ seen[1].handler = "h1"
  /\ seen[1].req.url.path = <<"a", "">>

\* ---------------------------------------------------------------------- C3

\* The request reached the Root Mount without an OriginalUrl attached.
CameWithoutOriginalUrl ==
  IF stack # <<>> THEN stack[1].entry.ext = None
  ELSE lastRet # None /\ Returned.entry.ext = None

\* C3 as stated (for requests that came without OriginalUrl): whenever a
\* Mount::handle call has returned, at any depth, the request's URL equals
\* the URL that call was invoked with.
C3_UrlAsOnEntryAtAnyDepth ==
  (lastRet # None /\ CameWithoutOriginalUrl) =>
    Returned.exit.url = Returned.entry.url

\* C3 amended: a Mount::handle call entered with no OriginalUrl attached
\* (the outermost one) returns with the request's URL equal to the URL it
\* was invoked with, whatever the handler returned or did to the URL; a
\* call entered with OriginalUrl attached returns with the URL equal to the
\* attached value if it matched, and with the URL untouched if it did not.
C3_UrlRestoredFromOriginalUrl ==
  lastRet # None =>
    /\ Returned.entry.ext = None => Returned.exit.url = Returned.entry.url
    /\ (Returned.entry.ext # None /\ Returned.matched # None) =>
         Returned.exit.url = Returned.entry.ext[1]
    /\ Returned.matched = None => Returned.exit.url = Returned.entry.url
    /\ Returned.depth = Len(stack) + 1
    /\ ctl = "ret" => req = Returned.exit

\* C3 witness: the outermost call has returned an error after a plain
\* handler two Mounts deep overwrote the URL, and the URL is the one of the
\* request again.
C3_Witness ==
  /\ ctl = "ret"
  /\ stack = <<>>
  /\ lastRet # None
  /\ Returned.depth = 1
  /\ Returned.entry.ext = None
  /\ Returned.result = "Err"
  /\ seen # None
  /\ seen[1].depth = 2
  /\ seen[1].effect = "scramble"
  /\ seen[1].req.url.path # Returned.entry.url.path
  /\ req.url = NewUrl(<<"a", "a", "a">>)

\* ---------------------------------------------------------------------- C4

\* C4: once the outermost Mount::handle call of a request that came without
\* OriginalUrl has returned, the request holds no OriginalUrl.
C4_NoOriginalUrlLeft ==
  (ctl = "ret" /\ stack = <<>> /\ lastRet # None
     /\ Returned.entry.ext = None) =>
    req.ext = None

\* C4 witness: the outermost call returned the error of a handler that ran
\* two Mounts deep, where OriginalUrl was attached.
C4_Witness ==
  /\ ctl = "ret"
  /\ stack = <<>>
  /\ lastRet # None
  /\ Returned.entry.ext = None
  /\ Returned.result = "Err"
  /\ seen # None
  /\ seen[1].depth = 2
  /\ seen[1].req.ext # None
  /\ req.ext = None

\* ---------------------------------------------------------------------- C5

\* C5: a handler invoked through an outer and an inner Mount observes the
\* path the outer Mount was given, less the outer matched key, less the
\* inner matched key.
C5_NestedPrefixesRemoved ==
  \A i \in 2..Len(stack) :
    LET outer == stack[i - 1]
        nested == stack[i]
        full == outer.entry.url.path
    IN \A k1 \in MostSpecific(inner[outer.mount], full) :
         \A k2 \in MostSpecific(inner[nested.mount],
                                RemoveSegments(full, Len(k1))) :
           LET rest == RemoveSegments(RemoveSegments(full, Len(k1)), Len(k2))
           IN /\ nested.mount = outer.matched.handler
              /\ nested.passed.url.path = rest
              /\ (i = Len(stack) /\ ctl = "call") => req.url.path = rest
              /\ (i = Len(stack) /\ seen # None) =>
                   seen[1].depth = i /\ seen[1].req.url.path = rest

\* C5 witness: m2 with /a -> h1 is mounted at /a of m1; for the request
\* /a/a/a the handler h1 has run and seen the path a.
C5_Witness ==
  /\ HoldsExactly(inner["m1"], {<< <<"a">>, "m2" >>})
  /\ HoldsExactly(inner["m2"], {<< <<"a">>, "h1" >>})
  /\ Len(stack) = 2
  /\ stack[1].entry.url.path = <<"a", "a", "a">>
  /\ ctl = "ret"
  /\ seen # None
  /\ seen[1].handler = "h1"
  /\ seen[1].req.url.path = <<"a">>

\* ---------------------------------------------------------------------- C6

\* C6: for a request that came without OriginalUrl, whenever a mounted
\* handler is invoked, at any depth, and for as long as Mount::handle calls
\* are in progress and no handler removed the extension, OriginalUrl is
\* attached and is the URL the outermost call was invoked with.
C6_OriginalUrlWhileHandling ==
  (stack # <<>> /\ stack[1].entry.ext = None) =>
    /\ ctl = "call" => req.ext = Some(stack[1].entry.url)
    /\ ~tampered => req.ext = Some(stack[1].entry.url)
    /\ seen # None => seen[1].req.ext = Some(stack[1].entry.url)

\* C6 witness: a plain handler is invoked two Mounts deep with a rewritten
\* URL while OriginalUrl holds the full URL of the request.
C6_Witness ==
  /\ Len(stack) = 2
  /\ ctl = "call"
  /\ callee \in Leaves
  /\ stack[1].entry.ext = None
  /\ stack[1].entry.url = NewUrl(<<"a", "a", "">>)
  /\ req.url.path = <<"">>
  /\ req.ext = Some(NewUrl(<<"a", "a", "">>))

\* ---------------------------------------------------------------------- C7

\* C7: each table holds, for every normalized key a handler was mounted at,
\* one entry bound to the handler mounted there last, and no other entry;
\* every dispatch that matches the key invokes that handler.
C7_LastRegistrationWins ==
  /\ \A m \in Mounts :
       /\ Entries(inner[m]) = {r[1] : r \in registered[m]}
       /\ \A r \in registered[m] : inner[m][r[1]][1].handler = r[2]
  /\ \A i \in 1..Len(stack) :
       \A k \in MostSpecific(inner[stack[i].mount],
                             stack[i].entry.url.path) :
         \A r \in registered[stack[i].mount] :
           r[1] = k => /\ stack[i].matched.handler = r[2]
                       /\ CallsHandler(i, r[2])

\* C7 witness: m2 was mounted at /a of m1 and h2 was mounted there after
\* it; the request /a/a is handed to h2.
C7_Witness ==
  /\ "m2" \in moved
  /\ HoldsExactly(inner[Root], {<< <<"a">>, "h2" >>})
  /\ registered[Root] = {<< <<"a">>, "h2" >>}
  /\ Len(stack) = 1
  /\ stack[1].entry.url.path = <<"a", "a">>
  /\ ctl = "call"
  /\ callee = "h2"

\* ---------------------------------------------------------------------- C8

\* C8 as stated: a Mount::handle call returns NoMatch exactly when no
\* registered key of its table is a prefix of the request path.
C8_NoMatchIffNoPrefix ==
  lastRet # None =>
    (Returned.result = "NoMatch" <=>
       \A k \in Entries(inner[Returned.mount]) :
         ~IsPrefix(k, Returned.entry.url.path))

\* C8 amended: a Mount::handle call fails with a NoMatch of its own, before
\* it invokes any handler, exactly when no registered key of its table (the
\* empty key included) is a prefix of the request path; when a key is a
\* prefix, it returns NoMatch only as the result of the handler it invoked,
\* a nested Mount.
C8_NoMatchOfItsOwnIffNoPrefix ==
  /\ lastRet # None =>
       /\ Returned.matched = None <=>
            \A k \in Entries(inner[Returned.mount]) :
              ~IsPrefix(k, Returned.entry.url.path)
       /\ Returned.matched = None => Returned.result = "NoMatch"
       /\ (Returned.matched # None /\ Returned.result = "NoMatch") =>
            Returned.matched[1].handler \in Mounts
  /\ \A f \in Frames :
       \E k \in Entries(inner[f.mount]) : IsPrefix(k, f.entry.url.path)
  /\ (ctl = "ret" /\ stack = <<>>) => lastRet # None

\* C8 witness: with only /a/a registered, the request /a fails with
\* NoMatch and no handler is invoked.
C8_Witness ==
  /\ HoldsExactly(inner[Root], {<< <<"a", "a">>, "h1" >>})
  /\ ctl = "ret"
  /\ stack = <<>>
  /\ res = "NoMatch"
  /\ lastRet # None
  /\ Returned.matched = None
  /\ Returned.entry.url.path = <<"a">>
  /\ seen = None

\* ---------------------------------------------------------------------- C9

\* The registered keys of t that the path p equals, exactly or followed by
\* one empty segment.
ExactKeys(t, p) == {k \in Entries(t) : p = k}
TrailingKeys(t, p) == {k \in Entries(t) : p = k \o <<"">>}

\* C9: a request whose path is a registered key followed by one empty
\* segment is dispatched to the entry of that key, the entry the request
\* for the key itself is dispatched to; neither ends in a NoMatch of the
\* Mount.
C9_TrailingSeparatorSameEntry ==
  /\ \A f \in Frames :
       \A k \in ExactKeys(inner[f.mount], f.entry.url.path)
                  \cup TrailingKeys(inner[f.mount], f.entry.url.path) :
         f.matched = inner[f.mount][k][1]
  /\ (lastRet # None /\ Returned.matched = None) =>
       /\ ExactKeys(inner[Returned.mount], Returned.entry.url.path) = {}
       /\ TrailingKeys(inner[Returned.mount], Returned.entry.url.path) = {}

\* C9 witness: with / -> h1 and /a/a -> h2 registered, the request /a/a/
\* is handed to h2.
C9_Witness ==
  /\ HoldsExactly(inner[Root], {<< <<>>, "h1" >>, << <<"a", "a">>, "h2" >>})
  /\ Len(stack) = 1
  /\ stack[1].entry.url.path = <<"a", "a", "">>
  /\ stack[1].matched = [handler |-> "h2", length |-> 2]
  /\ ctl = "call"
  /\ callee = "h2"

\* --------------------------------------------------------------------- C10

\* C10 as stated: when the request path equals a registered key, with or
\* without one trailing empty segment, the handler observes the empty
\* path.
C10_ExactMatchObservesEmptyPath ==
  \A f \in Frames :
    (ExactKeys(inner[f.mount], f.entry.url.path) # {} \/
     TrailingKeys(inner[f.mount], f.entry.url.path) # {}) =>
      f.passed.url.path = <<>>

\* C10 amended: when the request path equals a registered key, the handler
\* observes the empty path; when it equals a registered key followed by
\* one empty segment, the handler observes the path of that one empty
\* segment.
C10_TrailingSeparatorForwarded ==
  /\ \A f \in Frames :
       /\ ExactKeys(inner[f.mount], f.entry.url.path) # {} =>
            f.passed.url.path = <<>>
       /\ TrailingKeys(inner[f.mount], f.entry.url.path) # {} =>
            f.passed.url.path = <<"">>
  /\ (stack # <<>> /\ ctl = "call") =>
       req.url.path = stack[Len(stack)].passed.url.path
  /\ (stack # <<>> /\ seen # None /\ seen[1].depth = Len(stack)) =>
       seen[1].req.url.path = stack[Len(stack)].passed.url.path

\* C10 witness: with /a -> h1 registered, h1 has seen the path "" for the
\* request /a/.
C10_Witness ==
  /\ HoldsExactly(inner[Root], {<< <<"a">>, "h1" >>})
  /\ Len(stack) = 1
  /\ stack[1].entry.url.path = <<"a", "">>
  /\ ctl = "ret"
  /\ seen # None
  /\ seen[1].handler = "h1"
  /\ seen[1].req.url.path = <<"">>

\* --------------------------------------------------------------------- C11

\* C11: a Mount::handle call that found a match returns the result of the
\* handler it invoked: through any depth of Mounts the result is the one
\* the plain handler gave, and NoMatch comes only from a Mount that found
\* no match, when no plain handler has run.
C11_ResultPassedThrough ==
  /\ (ctl = "ret" /\ seen # None) => res = LeafResult(seen[1].handler)
  /\ (ctl = "ret" /\ seen = None) =>
       res = "NoMatch" /\ lastRet # None
  /\ (lastRet # None /\ ctl = "ret") => Returned.result = res
  /\ (lastRet # None /\ Returned.matched # None
        /\ Returned.matched[1].handler \in Leaves) =>
       Returned.result = LeafResult(Returned.matched[1].handler)

\* C11 witness: the error of h2, invoked two Mounts deep, is what the
\* outermost call returned.
C11_Witness ==
  /\ ctl = "ret"
  /\ stack = <<>>
  /\ seen # None
  /\ seen[1].handler = "h2"
  /\ seen[1].depth = 2
  /\ lastRet # None
  /\ Returned.depth = 1
  /\ Returned.result = "Err"
  /\ res = "Err"

\* --------------------------------------------------------------------- C12

\* C12: in every matching dispatch the path handed to the handler has
\* exactly the L first segments of the entry path removed, L the number of
\* segments of the matched key: it is L shorter, every later segment keeps
\* its value and order, a trailing empty segment included, and the rest of
\* the URL is as on entry.
C12_FirstSegmentsRemoved ==
  \A f \in Frames :
    \A k \in MostSpecific(inner[f.mount], f.entry.url.path) :
      /\ f.matched.length = Len(k)
      /\ Len(f.passed.url.path) + Len(k) = Len(f.entry.url.path)
      /\ \A j \in 1..Len(f.passed.url.path) :
           f.passed.url.path[j] = f.entry.url.path[j + Len(k)]
      /\ f.passed.url.host = f.entry.url.host

\* C12 witness: m2 with / -> h1 is mounted at /a of m1; for the request
\* /a/a/ the Mount m2 is handed the path a, "" (one segment removed) and
\* then h1 the same path (no segment removed).
C12_Witness ==
  /\ HoldsExactly(inner["m1"], {<< <<"a">>, "m2" >>})
  /\ HoldsExactly(inner["m2"], {<< <<>>, "h1" >>})
  /\ Len(stack) = 2
  /\ stack[1].entry.url.path = <<"a", "a", "">>
  /\ stack[1].passed.url.path = <<"a", "">>
  /\ stack[2].passed.url.path = <<"a", "">>
  /\ ctl = "call"
  /\ callee = "h1"

\* --------------------------------------------------------------------- C13

\* C13: a Mount::handle call that finds no match invokes no handler and
\* returns with the request as it was on entry, URL and OriginalUrl alike;
\* when that call was a nested one, every enclosing call still puts the URL
\* back from OriginalUrl, and the outermost one removes the extension it
\* attached, so a request that came without OriginalUrl is as it came.
C13_NoMatchLeavesRequest ==
  /\ (lastRet # None /\ Returned.matched = None) =>
       /\ Returned.result = "NoMatch"
       /\ Returned.exit = Returned.entry
       /\ seen = None
       /\ ctl = "ret" /\ req = Returned.entry
       /\ Returned.depth = Len(stack) + 1
  /\ (lastRet # None /\ Returned.matched # None /\ seen = None) =>
       /\ Returned.result = "NoMatch"
       /\ Returned.entry.ext = None => Returned.exit = Returned.entry
       /\ Returned.entry.ext # None =>
            /\ Returned.exit.url = Returned.entry.ext[1]
            /\ Returned.exit.ext = Returned.entry.ext

\* C13 witness: m2 with /a/a -> h1 is mounted at /a of m1; the request
\* /a/a found no match in m2, and m1 has returned NoMatch with the request
\* as it came.
C13_Witness ==
  /\ HoldsExactly(inner["m1"], {<< <<"a">>, "m2" >>})
  /\ HoldsExactly(inner["m2"], {<< <<"a", "a">>, "h1" >>})
  /\ ctl = "ret"
  /\ stack = <<>>
  /\ res = "NoMatch"
  /\ seen = None
  /\ lastRet # None
  /\ Returned.mount = "m1"
  /\ Returned.matched # None
  /\ req = [url |-> NewUrl(<<"a", "a">>), ext |-> None]

\* --------------------------------------------------------------------- C14

\* C14: a Mount::handle call that found OriginalUrl attached on entry
\* neither attaches nor removes it: it is not the outer Mount, it hands the
\* extension on as it found it, and when it returns the extension is still
\* attached with the value it had; a call that found none is the one that
\* attached it and the one that removes it.
C14_OnlyTheAttacherRemoves ==
  /\ \A f \in Frames :
       /\ f.is_outer_mount <=> f.entry.ext = None
       /\ f.entry.ext # None => f.passed.ext = f.entry.ext
       /\ f.entry.ext = None => f.passed.ext = Some(f.entry.url)
  /\ \A i \in 2..Len(stack) :
       ~stack[i].is_outer_mount /\ stack[i].entry.ext = stack[1].passed.ext
  /\ (lastRet # None /\ Returned.entry.ext # None) =>
       Returned.exit.ext = Returned.entry.ext
  /\ (lastRet # None /\ Returned.entry.ext = None) =>
       Returned.exit.ext = None

\* C14 witness: the nested Mount m2 has returned to m1 and the OriginalUrl
\* that m1 attached is still on the request.
C14_Witness ==
  /\ Len(stack) = 1
  /\ stack[1].is_outer_mount
  /\ ctl = "ret"
  /\ lastRet # None
  /\ Returned.mount = "m2"
  /\ Returned.depth = 2
  /\ Returned.matched # None
  /\ Returned.entry.url.path # stack[1].entry.url.path
  /\ req.ext = Some(stack[1].entry.url)

\* --------------------------------------------------------------------- C15

\* C15: once a handler has removed OriginalUrl, no Mount::handle call
\* returns: the call that invoked the handler panics with the request as
\* the handler left it, and no enclosing call goes on to restore the URL
\* or to return a response or an error.
C15_PanicWithoutOriginalUrl ==
  /\ tampered =>
       /\ lastRet = None
       /\ ctl \in {"ret", "panic"}
       /\ seen # None
       /\ Len(stack) = seen[1].depth
       /\ req.ext = None
       /\ req.url = seen[1].req.url
  /\ ctl = "panic" => stack # <<>> /\ req.ext = None
  /\ (ctl = "ret" /\ stack # <<>> /\ req.ext = None) => lastRet = None

\* C15 witness: a handler two Mounts deep removed OriginalUrl and the
\* nested Mount has panicked, both calls still on the stack and the URL
\* still the rewritten one.
C15_Witness ==
  /\ ctl = "panic"
  /\ tampered
  /\ Len(stack) = 2
  /\ stack[1].entry.url.path = <<"a", "a", "a">>
  /\ req.url.path = <<"a">>
  /\ req.ext = None

\* --------------------------------------------------------------------- C16

\* C16: after any sequence of mount calls, whatever the separators of their
\* route strings, no node of a table is reached by an empty segment: no key
\* prefix held by a trie, and so no registered key, has an empty segment,
\* and the key of the route mounted last holds an entry.
C16_NoEmptySegmentInTable ==
  /\ \A m \in Mounts :
       \A k \in DOMAIN inner[m] : \A i \in 1..Len(k) : k[i] # ""
  /\ lastRoute # None =>
       /\ RouteKey(lastRoute[1][2]) \in Entries(inner[lastRoute[1][1]])
       /\ RouteKey(lastRoute[1][2]) = NormalKey(lastRoute[1][2])

\* C16 witness: the route a// was mounted last, after a route that is
\* separators only, and the table holds the keys <<>> and a.
C16_Witness ==
  /\ lastRoute = Some(<<Root, <<"a", "/", "/">>>>)
  /\ Entries(inner[Root]) = {<<>>, <<"a">>}
  /\ DOMAIN inner[Root] = {<<>>, <<"a">>}

\* --------------------------------------------------------------------- C17

\* The Mount handed the request returned and its table holds a root entry.
RootMountReturned ==
  /\ ctl = "ret"
  /\ stack = <<>>
  /\ lastRet # None
  /\ Returned.mount = Root
  /\ <<>> \in Entries(inner[Root])

\* C17 as stated: with a root mount present, NoMatch is never returned.
C17_NeverNoMatchWithRootMount ==
  RootMountReturned => Returned.result # "NoMatch"

\* C17: the routes "/" and "" give the empty key; a Mount whose table holds
\* an entry at the empty key never finds no match, and where no longer
\* registered key is a prefix of the request path it matches that entry,
\* of length 0, and invokes its handler with the URL unchanged. A NoMatch
\* returned by that handler is returned all the same.
C17_RootMountCatchesAll ==
  /\ RouteKey(<<>>) = <<>>
  /\ RouteKey(<<"/">>) = <<>>
  /\ \A f \in Frames :
       (/\ <<>> \in Entries(inner[f.mount])
        /\ \A k \in Entries(inner[f.mount]) :
             k # <<>> => ~IsPrefix(k, WithoutTrailingEmpty(f.entry.url.path)))
       => /\ f.matched = inner[f.mount][<<>>][1]
          /\ f.matched.length = 0
          /\ f.passed.url = f.entry.url
  /\ (lastRet # None /\ Returned.matched = None) =>
       <<>> \notin Entries(inner[Returned.mount])
  /\ RootMountReturned =>
       /\ Returned.matched # None
       /\ Returned.result = "NoMatch" =>
            Returned.matched[1].handler \in Mounts /\ seen = None

\* C17 witness: the table holds / -> h1 and /a/a -> h2; for the request
\* /a/ no longer key is a prefix, and h1 was invoked with the path a, "".
C17_Witness ==
  /\ HoldsExactly(inner[Root], {<< <<>>, "h1" >>, << <<"a", "a">>, "h2" >>})
  /\ Len(stack) = 1
  /\ stack[1].entry.url.path = <<"a", "">>
  /\ stack[1].matched.length = 0
  /\ ctl = "ret"
  /\ seen # None
  /\ seen[1].handler = "h1"
  /\ seen[1].req.url.path = <<"a", "">>

\* --------------------------------------------------------------------- C19

\* C19: the length stored in every entry is the number of segments of its
\* key, the depth of its node; so in every Mount::handle call the length of
\* the matched entry is at most the number of segments of the key looked
\* up and of the request path, and the slice path[length..] is in bounds.
C19_LengthIsDepth ==
  /\ \A m \in Mounts :
       \A k \in Entries(inner[m]) : inner[m][k][1].length = Len(k)
  /\ \A f \in Frames :
       /\ f.matched.length \in 0..Len(LookupKey(f.entry.url.path))
       /\ f.matched.length <= Len(f.entry.url.path)
       /\ Len(f.passed.url.path) = Len(f.entry.url.path) - f.matched.length

\* C19 witness: m2 with / -> h1 is mounted at /a/a of m1; the request /a/a/
\* matched an entry as long as the key looked up, with only the trailing
\* empty segment left, and m2 then matched its root entry of length 0.
C19_Witness ==
  /\ HoldsExactly(inner["m1"], {<< <<"a", "a">>, "m2" >>})
  /\ HoldsExactly(inner["m2"], {<< <<>>, "h1" >>})
  /\ Len(stack) = 2
  /\ stack[1].entry.url.path = <<"a", "a", "">>
  /\ stack[1].matched.length = 2
  /\ stack[2].entry.url.path = <<"">>
  /\ stack[2].matched.length = 0
  /\ stack[2].passed.url.path = <<"">>

\* --------------------------------------------------------------------- C20

\* C20: a Mount::handle call on a request that carries OriginalUrl on
\* entry, whoever attached it, is no outer Mount: it invokes its handler
\* with the extension as found, and when it returns the extension is as
\* found and the request URL is the value of the extension, whatever the
\* URL was on entry.
C20_AttachedOnEntryMeansNested ==
  /\ \A f \in Frames :
       f.entry.ext # None =>
         /\ ~f.is_outer_mount
         /\ f.passed.ext = f.entry.ext
         /\ f.passed.url.path = DropPrefix(f.entry.url.path, f.matched.length)
  /\ (lastRet # None /\ Returned.entry.ext # None
        /\ Returned.matched # None) =>
       /\ Returned.exit.ext = Returned.entry.ext
       /\ Returned.exit.url = Returned.entry.ext[1]

\* C20 witness: the request came to the Root Mount with an OriginalUrl of
\* another component attached; the call has returned, the extension is
\* still that value and the request URL is now that value, not the URL the
\* request came with.
C20_Witness ==
  /\ ctl = "ret"
  /\ stack = <<>>
  /\ seen # None
  /\ lastRet # None
  /\ Returned.mount = Root
  /\ Returned.entry.ext = Some(ForeignUrl)
  /\ Returned.entry.url # ForeignUrl
  /\ req.ext = Some(ForeignUrl)
  /\ req.url = ForeignUrl

\* --------------------------------------------------------------------- C18

\* The handle call of request r is over: it returned or it panicked.
Finished(r) ==
  \/ reqs[r].ctl = "panic"
  \/ reqs[r].ctl = "ret" /\ reqs[r].stack = <<>>

\* What request r comes to when the Root Mount handles it with no other
\* request about, the plain handler doing what it did to r.
Alone(r) ==
  AloneHandle(reqs[r].entry[1].tables, Root,
              [url |-> reqs[r].entry[1].url, ext |-> None],
              IF reqs[r].seen = None THEN "keep" ELSE reqs[r].seen[1].effect)

\* C18: while requests are served on one table by threads of their own,
\* whatever the order of their steps, the tables stay as they were when
\* each request was handed over, and each request has the same plain
\* handler invoked with the same path, the same result (or panic), and the
\* same URL and OriginalUrl at the end as when it is handled alone.
C18_ConcurrentAsAlone ==
  \A r \in Requests :
    reqs[r].ctl # "idle" =>
      /\ reqs[r].entry[1].tables = inner
      /\ reqs[r].seen # None => reqs[r].seen = Alone(r).seen
      /\ Finished(r) =>
           /\ reqs[r].seen = Alone(r).seen
           /\ (reqs[r].ctl = "panic") = Alone(r).panicked
           /\ reqs[r].res = Alone(r).res
           /\ reqs[r].url = Alone(r).req.url
           /\ exts[ExtStore(r)] = Alone(r).req.ext

\* C18 witness: with a Mount nested at /a, the second request /a/a/ was
\* dispatched from entry to return, its URL restored and its OriginalUrl
\* removed, while the first request /a sat between the return of its plain
\* handler and the return of the nested Mount, its OriginalUrl attached.
C18_Witness ==
  /\ HoldsExactly(inner["m1"], {<< <<"a">>, "m2" >>})
  /\ HoldsExactly(inner["m2"], {<< <<>>, "h1" >>})
  /\ reqs["r1"].ctl = "ret"
  /\ Len(reqs["r1"].stack) = 2
  /\ reqs["r1"].entry[1].url.path = <<"a">>
  /\ exts[ExtStore("r1")] = Some(NewUrl(<<"a">>))
  /\ Finished("r2")
  /\ reqs["r2"].ctl = "ret"
  /\ reqs["r2"].seen # None
  /\ reqs["r2"].seen[1].path = <<"a", "">>
  /\ reqs["r2"].url = NewUrl(<<"a", "a", "">>)
  /\ exts[ExtStore("r2")] = None

====
